---------------------------- MODULE Spec2Model ----------------------------
(***************************************************************************)
(* TrackSynchronizer (pkg/synchronizer/track.go): the per-track mapping of *)
(* RTP timestamps to presentation timestamps.                              *)
(*                                                                         *)
(* Units.  TLC's integers are 32 bits wide, so the 64-bit quantities of    *)
(* the code are counted in coarser units; every value below is the code's  *)
(* value divided by its unit, and the track modelled is an audio track of  *)
(* clock rate 16000 for which all of these divisions are exact:            *)
(*   RTP time (Timestamp, firstTS, lastTS, frameDuration): 64 ticks        *)
(*   presentation time and wall clock (lastPTS, maxPTS, ptsOffset,         *)
(*   startedAt, now): 2 ms = 2 000 000 ns                                  *)
(* Sequence numbers keep their 16 bits and maxSNDropout its value.         *)
(*                                                                         *)
(* Three specifications.  Spec: one track of clock rate 16000, in the      *)
(* units above, through packets, gaps, wraparounds, insertions, sender     *)
(* reports and the end of the stream.  SpecRates: tracks of several clock  *)
(* rates and kinds, counted in ticks and nanoseconds themselves; the       *)
(* operators are the same in either unit as long as no timestamp reaches   *)
(* uint32Overflow, and SpecRates makes no call that takes one there.       *)
(* SpecSession: the tracks of one session running Initialize concurrently, *)
(* wall clock in the units above.                                          *)
(***************************************************************************)
EXTENDS Integers, Sequences, FiniteSets, TLC

VARIABLES
    t,          \* the TrackSynchronizer struct
    sync,       \* the Synchronizer's startedAt (0: not set)
    now,        \* the last reading of time.Now()
    wire,       \* the packet last received from the transport, as received
    next,       \* the packet object the caller holds and has not yet passed to GetPTS
    op,         \* the packet operation that ran last
    arg,        \* the first packet argument of that operation, before the call
    pkt,        \* the same packet object after the call
    ret,        \* what the operation returned (and what adjust returned to it)
    query,      \* the answer of a read-only operation, until the next operation
    shown,      \* the PTS the caller was given last (by GetPTS or an insertion), if any
    calls,      \* how many packets (gaps: not numbered one after the last),
                \* insertions and reports the run has used
    track,      \* the TrackRemote the synchronizer was made for: its codec's
                \* clock rate and its kind
    peers,      \* the tracks of the session that are running Initialize: for
                \* each its position in the method, its locals and its struct
    call        \* the Initialize call on t: its position in the method and
                \* its locals now and startedAt

vars == <<t, sync, now, wire, next, op, arg, pkt, ret, query, shown, calls, track, peers, call>>

-----------------------------------------------------------------------------
(* Bounds of the exploration *)

MaxPackets == 3     \* packets received from the transport
MaxInserts == 2     \* synthetic frames requested
MaxReports == 1     \* sender reports applied
MaxClock   == 3     \* how far the wall clock advances

-----------------------------------------------------------------------------
(* Program constants *)

maxSNDropout == 3000
uint32Overflow == 67108864      \* 4294967296 ticks, in units of 64 ticks
uint16Overflow == 65536

U16(x) == x % uint16Overflow
U32(x) == x % uint32Overflow

NoPkt == [SequenceNumber |-> -1, Timestamp |-> -1]
Blank == [SequenceNumber |-> 0, Timestamp |-> 0]
NoRet == [pts |-> 0, ok |-> TRUE, ts |-> 0, adj |-> 0, valid |-> FALSE,
          reset |-> FALSE, nextTS |-> 0]
NoQuery == [op |-> "none", pts |-> 0, inDelta |-> FALSE]

-----------------------------------------------------------------------------
(* float64.  A float64 above zero is m * 2^e, m a whole number of 53 bits   *)
(* (2^52 <= m < 2^53) kept as four limbs of 14 bits, the least first; the   *)
(* operations round to the nearest such number, ties to the even m, as the  *)
(* hardware does.  Whole numbers below 2^53 convert to float64 as they are. *)

Limb == 16384
FZero == [m |-> <<0, 0, 0, 0>>, e |-> 0]

RECURSIVE BitLen(_)
BitLen(v) == IF v = 0 THEN 0 ELSE 1 + BitLen(v \div 2)

\* the limbs of the number whose limbs, before the carries, are c
RECURSIVE Carried(_, _)
Carried(c, carry) ==
    IF c = <<>>
    THEN IF carry = 0 THEN <<>> ELSE <<carry>>
    ELSE <<(c[1] + carry) % Limb>> \o Carried(Tail(c), (c[1] + carry) \div Limb)

\* how many bits the number of limbs p has
RECURSIVE Bits(_)
Bits(p) ==
    IF p = <<>> THEN 0
    ELSE IF p[Len(p)] # 0 THEN 14 * (Len(p) - 1) + BitLen(p[Len(p)])
    ELSE Bits(SubSeq(p, 1, Len(p) - 1))

LimbAt(p, i) == IF i < Len(p) THEN p[i + 1] ELSE 0
\* the upper 14 - o bits of the limb lower, under the lower o bits of upper
Straddle(lower, upper, o) == (lower \div 2^o) + (upper % 2^o) * 2^(14 - o)
\* bits lo .. lo+13 of the number of limbs p
Field(p, lo) == Straddle(LimbAt(p, lo \div 14), LimbAt(p, lo \div 14 + 1), lo % 14)
\* limbs i .. 3 of the number of limbs p shifted right by sh bits
RECURSIVE Shifted(_, _, _)
Shifted(p, sh, i) ==
    IF i = 4 THEN <<>> ELSE <<Field(p, sh + 14 * i)>> \o Shifted(p, sh, i + 1)
\* some bit below bit sh of p is set
Sticky(p, sh) ==
    \E j \in 0 .. (sh - 1) \div 14 :
        (IF 14 * (j + 1) <= sh THEN LimbAt(p, j) ELSE LimbAt(p, j) % 2^(sh - 14 * j)) # 0

\* the float64 r * 2^(e + 1), r of 53 bits or 2^53 itself
Normal(r, e) ==
    IF r[4] = 2048 THEN [m |-> <<0, 0, 0, 1024>>, e |-> e + 2]
                   ELSE [m |-> r, e |-> e + 1]
\* h plus one half if half, plus a little if sticky, to the nearest whole
\* number, ties to the even one
NearestEven(h, half, sticky) ==
    IF half /\ (sticky \/ h[1] % 2 = 1)
    THEN Carried(<<h[1] + 1, h[2], h[3], h[4]>>, 0)
    ELSE h
\* the float64 nearest to n * 2^e, n of 54 bits, plus a little if sticky
Rounded(n, sticky, e) ==
    Normal(NearestEven(Shifted(n, 1, 0), n[1] % 2 = 1, sticky), e)

\* the bits of q, the most significant first
RECURSIVE BitsOf(_)
BitsOf(q) == IF q = 0 THEN <<>> ELSE BitsOf(q \div 2) \o <<q % 2>>

\* how many zeros rem/b begins with after the point, 0 < rem < b
RECURSIVE Lead(_, _)
Lead(rem, b) == IF rem >= b - rem THEN 0 ELSE 1 + Lead(rem + rem, b)

\* the first k bits of rem/b after the point, rem < b, and after them what
\* is left to divide
RECURSIVE FractionBits(_, _, _)
FractionBits(rem, b, k) ==
    IF k = 0 THEN <<rem>>
    ELSE IF rem >= b - rem THEN <<1>> \o FractionBits(rem - (b - rem), b, k - 1)
                           ELSE <<0>> \o FractionBits(rem + rem, b, k - 1)

\* bit i of the number of bits S, and its bits lo+j .. lo+13 as a number
BitAt(S, i) == IF i < Len(S) THEN S[Len(S) - i] ELSE 0
RECURSIVE Pack(_, _, _)
Pack(S, lo, j) == IF j = 14 THEN 0 ELSE BitAt(S, lo + j) * 2^j + Pack(S, lo, j + 1)
\* limbs i .. 3 of the number of bits S
RECURSIVE Packed(_, _)
Packed(S, i) == IF i = 4 THEN <<>> ELSE <<Pack(S, 14 * i, 0)>> \o Packed(S, i + 1)

\* the float64 nearest to the quotient of whole part whole (its bits) and
\* fraction fr (its first k bits, then the remainder)
Quotient(whole, fr, k) ==
    Rounded(Packed(whole \o SubSeq(fr, 1, k), 0), fr[k + 1] # 0, -k)
\* how many bits of a/b after the point make 54 bits with those before it
FractionLen(a, b) ==
    IF a \div b = 0 THEN 54 + Lead(a, b) ELSE 54 - BitLen(a \div b)
Float64DivTo(a, b, k) == Quotient(BitsOf(a \div b), FractionBits(a % b, b, k), k)
\* float64(a) / float64(b), a and b whole numbers above zero: the first 54
\* bits of the quotient, rounded
Float64Div(a, b) == Float64DivTo(a, b, FractionLen(a, b))

\* the columns of the product of the limbs m by the limbs x0, x1, x2
Columns(m, x0, x1, x2) ==
    << m[1] * x0,
       m[2] * x0 + m[1] * x1,
       m[3] * x0 + m[2] * x1 + m[1] * x2,
       m[4] * x0 + m[3] * x1 + m[2] * x2,
                   m[4] * x1 + m[3] * x2,
                               m[4] * x2 >>
\* the limbs of m * x
Product(m, x) ==
    Carried(Columns(m, x % Limb, (x \div Limb) % Limb, x \div (Limb * Limb)), 0)
\* the float64 nearest to p * 2^e, p of sh + 54 bits
Cut(p, sh, e) == Rounded(Shifted(p, sh, 0), Sticky(p, sh), e + sh)
FMulProduct(f, p) == IF Bits(p) < 54 THEN f ELSE Cut(p, Bits(p) - 54, f.e)
\* f * float64(x), x a whole number not below zero
FMulInt(f, x) ==
    IF x = 0 \/ f = FZero THEN FZero ELSE FMulProduct(f, Product(f.m, x))

\* the whole part of m * 2^(-s) from limb i on, in units of 2^(14 * i)
RECURSIVE WholeFrom(_, _, _)
WholeFrom(m, s, i) ==
    IF i = 4 THEN 0 ELSE Field(m, s + 14 * i) + Limb * WholeFrom(m, s, i + 1)
\* int64(f): the whole part of f
Whole(f) ==
    IF f = FZero \/ -f.e >= 53 THEN 0
    ELSE IF f.e >= 0 THEN f.m[4] * Limb * Limb * Limb
    ELSE WholeFrom(f.m, -f.e, 0)

\* the bit of f that counts one half
HalfBit(f) == IF f.e >= 0 THEN 0 ELSE Field(f.m, -f.e - 1) % 2
\* math.Round(f): to the nearest whole number, halves away from zero
FRound(f) ==
    IF f = FZero \/ -f.e >= 54 THEN 0
    ELSE IF -f.e = 53 THEN 1
    ELSE Whole(f) + HalfBit(f)

\* the whole number below 2048 that f is, or -1
Small(f) ==
    IF /\ f.m[1] = 0 /\ f.m[2] = 0 /\ f.m[3] = 0
       /\ -(f.e + 42) \in 0 .. 10
       /\ f.m[4] % 2^(-(f.e + 42)) = 0
    THEN f.m[4] \div 2^(-(f.e + 42))
    ELSE -1

Abs(x) == IF x >= 0 THEN x ELSE -x
Sign(x) == IF x >= 0 THEN 1 ELSE -1
\* math.Round(float64(a) * r), a not below zero, r the whole number whole if
\* that is not -1.  The product of two whole numbers is exact below 2^53,
\* which is where every value here is.
RoundProduct(a, r, whole) ==
    IF whole >= 0 THEN a * whole ELSE FRound(FMulInt(r, a))
\* math.Round(float64(x) * r); float64 products and math.Round are both odd
\* functions, so the sign of x passes through
RoundMul(x, r) == Sign(x) * RoundProduct(Abs(x), r, Small(r))

\* math.Round(float64(a) * r * float64(k)): two products, each rounded
RoundProduct2(a, r, k, whole) ==
    IF whole >= 0 THEN a * whole * k ELSE FRound(FMulInt(FMulInt(r, a), k))
\* math.Round(float64(x) * r * float64(k)), k above zero
RoundMul2(x, r, k) == Sign(x) * RoundProduct2(Abs(x), r, k, Small(r))

-----------------------------------------------------------------------------
(* newTrackSynchronizer: clock rate 16000, audio *)

newTrackSynchronizer ==
    [ rtpDuration          |-> Float64Div(500, 250),
                                    \* 1e9/16000 ns per tick = 4 ms per 64 ticks:
                                    \* a second is 500 units of 2 ms and 250 of 64 ticks
      frameDuration        |-> 0,
      defaultFrameDuration |-> Whole(Float64Div(250, 50)),
                                    \* int64(16000/50) = 320 ticks
      startedAt            |-> 0,
      firstTS              |-> 0,
      maxPTS               |-> 0,
      lastSN               |-> 0,
      lastTS               |-> 0,
      lastPTS              |-> 0,
      lastValid            |-> FALSE,
      inserted             |-> 0,
      snOffset             |-> 0,
      ptsOffset            |-> 0,
      lastPTSDrift         |-> 0 ]

\* newTrackSynchronizer for a codec of the given clock rate (Hz) and kind,
\* in ticks and nanoseconds
newTrackSynchronizerOf(clockRate, kind) ==
    [ newTrackSynchronizer EXCEPT
        !.rtpDuration = Float64Div(1000000000, clockRate),
        !.defaultFrameDuration = IF kind = "audio"
                                 THEN Whole(Float64Div(clockRate, 50))
                                 ELSE Whole(Float64Div(clockRate, 24)) ]

getFrameDurationRTP_NoDefault(s) == s.frameDuration
getFrameDurationRTP(s) ==
    IF s.frameDuration # 0 THEN s.frameDuration ELSE s.defaultFrameDuration

getElapsed_Wire(s, ts) == RoundMul(U32(ts) - s.firstTS, s.rtpDuration)
getElapsed(s, ts) == RoundMul(ts - s.firstTS, s.rtpDuration)

\* for ts < t.lastTS { ts += uint32Overflow }
Unwrap_Not(ts, last) == ts
RECURSIVE Unwrap(_, _)
Unwrap(ts, last) == IF ts < last THEN Unwrap(ts + uint32Overflow, last) ELSE ts

\* the reset condition of adjust, on the offset-corrected sequence number
IsReset_Ahead(s, sn) ==
    /\ s.lastTS # 0
    /\ U16(sn - s.lastSN) > maxSNDropout
IsReset(s, sn) ==
    /\ s.lastTS # 0
    /\ U16(sn - s.lastSN) > maxSNDropout
    /\ U16(s.lastSN - sn) > maxSNDropout

\* pkt.SequenceNumber += t.snOffset
correctedSN_NoOffset(s, p) == p.SequenceNumber
correctedSN(s, p) == U16(p.SequenceNumber + s.snOffset)

\* t.snOffset += t.lastSN + 1 - pkt.SequenceNumber
resetSNOffset_OffByOne(s, sn) == U16(s.snOffset + s.lastSN - sn)
resetSNOffset(s, sn) == U16(s.snOffset + s.lastSN + 1 - sn)

\* adjust(pkt): the track and the packet after the call, and the three results
\* (reset tells which branch was taken)
adjust(s, p) ==
    LET sn == correctedSN(s, p) IN
    IF IsReset(s, sn)
    THEN LET frameDuration == getFrameDurationRTP(s)
             tsOffset == (s.inserted + 1) * frameDuration
             ts  == s.lastTS + tsOffset
             pts == s.lastPTS + RoundMul(tsOffset, s.rtpDuration)
         IN [ t   |-> [s EXCEPT !.snOffset = resetSNOffset(s, sn),
                                !.firstTS  = s.firstTS + p.Timestamp - ts],
              pkt |-> [p EXCEPT !.SequenceNumber = U16(s.lastSN + 1)],
              ts |-> ts, pts |-> pts, valid |-> FALSE, reset |-> TRUE ]
    ELSE LET ts == Unwrap(p.Timestamp, s.lastTS)
             q  == [p EXCEPT !.SequenceNumber = sn]
         IN IF ts = s.lastTS
            THEN [ t |-> s, pkt |-> q, ts |-> ts, pts |-> s.lastPTS,
                   valid |-> s.lastValid, reset |-> FALSE ]
            ELSE [ t |-> s, pkt |-> q, ts |-> ts,
                   pts |-> getElapsed(s, ts) + s.ptsOffset,
                   valid |-> TRUE, reset |-> FALSE ]

\* t.maxPTS > 0 && (pts > t.maxPTS || !valid)
pastEnd_PTSOnly(s, pts, valid) == s.maxPTS > 0 /\ pts > s.maxPTS
pastEnd(s, pts, valid) == s.maxPTS > 0 /\ (pts > s.maxPTS \/ ~valid)

\* return 0, io.EOF: the previous values are left as they are
endOfStream_Advances(s, a) ==
    [ t |-> [s EXCEPT !.lastTS = a.ts,
                      !.lastSN = a.pkt.SequenceNumber,
                      !.lastPTS = a.pts,
                      !.lastValid = a.valid],
      pkt |-> a.pkt, pts |-> 0, ok |-> FALSE,
      ts |-> a.ts, adj |-> a.pts, valid |-> a.valid, reset |-> a.reset,
      nextTS |-> 0 ]
endOfStream(s, a) ==
    [ t |-> s, pkt |-> a.pkt, pts |-> 0, ok |-> FALSE,
      ts |-> a.ts, adj |-> a.pts, valid |-> a.valid, reset |-> a.reset,
      nextTS |-> 0 ]

\* GetPTS(pkt): the track and the packet after the call, the PTS and whether
\* the error is nil; ts, adj and valid are what adjust returned
\* valid && t.lastValid && pkt.SequenceNumber == t.lastSN+1
newFrame_AfterAnything(s, sn, valid) == valid /\ sn = U16(s.lastSN + 1)
newFrame(s, sn, valid) == valid /\ s.lastValid /\ sn = U16(s.lastSN + 1)

GetPTS(s, p) ==
    LET a  == adjust(s, p)
        s1 == [a.t EXCEPT !.inserted = 0]
        s2 == IF newFrame(s1, a.pkt.SequenceNumber, a.valid)
              THEN [s1 EXCEPT !.frameDuration = a.ts - s1.lastTS]
              ELSE s1
    IN IF pastEnd(s2, a.pts, a.valid)
       THEN endOfStream(s2, a)
       ELSE [ t |-> [s2 EXCEPT !.lastTS = a.ts,
                               !.lastSN = a.pkt.SequenceNumber,
                               !.lastPTS = a.pts,
                               !.lastValid = a.valid],
              pkt |-> a.pkt, pts |-> a.pts, ok |-> TRUE,
              ts |-> a.ts, adj |-> a.pts, valid |-> a.valid, reset |-> a.reset,
              nextTS |-> 0 ]

\* ts+frameDurationRTP > nextTS
tooLong_AtOrAfter(ts, frameDurationRTP, nextTS) == ts + frameDurationRTP >= nextTS
tooLong(ts, frameDurationRTP, nextTS) == ts + frameDurationRTP > nextTS

\* insertFrameBefore(pkt, next); n = NoPkt stands for next == nil.  ts is the
\* synthetic timestamp and nextTS what adjust(next) returned
insertFrameBefore(s, p, n) ==
    LET s1 == [s EXCEPT !.inserted = @ + 1,
                        !.snOffset = U16(@ + 1),
                        !.lastValid = FALSE]
        frameDurationRTP == getFrameDurationRTP(s1)
        ts == s1.lastTS + (s1.inserted * frameDurationRTP)
        a  == adjust(s1, n)
        s2 == IF n = NoPkt THEN s1 ELSE a.t
        n2 == IF n = NoPkt THEN n ELSE a.pkt
        nextTS == IF n = NoPkt THEN 0 ELSE a.ts
    IN IF n # NoPkt /\ tooLong(ts, frameDurationRTP, nextTS)
       THEN [ t |-> s2, pkt |-> p, next |-> n2, pts |-> 0, ok |-> FALSE,
              ts |-> ts, adj |-> 0, valid |-> FALSE, reset |-> a.reset,
              nextTS |-> nextTS ]
       ELSE [ t |-> s2,
              pkt |-> [p EXCEPT !.SequenceNumber = U16(s2.lastSN + s2.inserted),
                                !.Timestamp = U32(ts)],
              next |-> n2,
              pts |-> s2.lastPTS
                      + RoundMul2(frameDurationRTP, s2.rtpDuration, s2.inserted),
              ok |-> TRUE, ts |-> ts, adj |-> 0, valid |-> FALSE,
              reset |-> (n # NoPkt /\ a.reset), nextTS |-> nextTS ]

InsertFrame_ShiftsOffset(s, p) ==
    LET r == insertFrameBefore(s, p, NoPkt)
    IN [r EXCEPT !.t.ptsOffset = @ + RoundMul(getFrameDurationRTP(s), s.rtpDuration)]
InsertFrame(s, p) == insertFrameBefore(s, p, NoPkt)

InsertFrameBefore(s, p, n) == insertFrameBefore(s, p, n)

GetFrameDuration(s) == RoundMul(getFrameDurationRTP(s), s.rtpDuration)

\* Synchronizer.getOrSetStartedAt(now): the first caller's value stays
getOrSetStartedAt(sy, nowv) == IF sy = 0 THEN nowv ELSE sy

Initialize(s, p, nowv, startedAt) ==
    [s EXCEPT !.startedAt = nowv,
              !.firstTS   = p.Timestamp,
              !.ptsOffset = nowv - startedAt]

\* onSenderReport(pkt, pts, ntpStart); expected is the report's NTP time less ntpStart
onSenderReport_Damped(s, expected, pts) ==
    IF pts # expected
    THEN LET drift == expected - pts
         IN IF drift > 500 \/ drift < -500
            THEN [s EXCEPT !.lastPTSDrift = drift]
            ELSE [s EXCEPT !.ptsOffset = @ + drift]
    ELSE s
onSenderReport(s, expected, pts) ==
    IF pts # expected
    THEN LET drift == expected - pts
         IN [s EXCEPT !.ptsOffset = @ + drift]
    ELSE s

inDelta(a, b, delta) == IF a > b THEN a - b <= delta ELSE b - a <= delta

RECURSIVE UnwrapHalf(_, _)
UnwrapHalf(ts, last) ==
    IF ts < last - (uint32Overflow \div 2) THEN UnwrapHalf(ts + uint32Overflow, last) ELSE ts

\* getSenderReportPTS(pkt): 1e9 ns are 500 units of 2 ms
getSenderReportPTS(s, rtpTime, nowv) ==
    LET ts == UnwrapHalf(rtpTime, s.lastTS)
        elapsed == getElapsed(s, ts)
        expected == nowv - s.startedAt
    IN [ pts |-> elapsed + s.ptsOffset, inDelta |-> inDelta(elapsed, expected, 500) ]

-----------------------------------------------------------------------------
(* The caller and the transport *)

\* the first packet of a stream: far from the wraparound of both counters,
\* or right before it
First == { [SequenceNumber |-> 100,   Timestamp |-> 1000],
           [SequenceNumber |-> 65535, Timestamp |-> uint32Overflow - 5] }
\* how far the next packet is from the last, in sequence number and in
\* timestamp.  In order (1) or after a jump past maxSNDropout (4900): the same
\* frame, one or two frame durations on, or a timestamp 5 behind (equally,
\* 2^32 - 5 ahead).  After the loss of one packet (2): two frame durations on.
Steps == ({1, 4900} \X {0, 5, 10, uint32Overflow - 5}) \cup {<<2, 10>>}
\* the wall clock: where it starts and what it advances by between readings
Epoch == 1000
ClockStep == 3
\* the drift a sender report shows: the sender's clock behind by more than a
\* frame duration, in step, ahead, or ahead by ten seconds
Drifts == {-12, 0, 8, 5000}
\* how far after the last PTS the stream is told to end: three frame durations
EndAfter == {30}

\* time.Now(): later than the last reading, until the clock has advanced MaxClock
Clock == IF now + ClockStep <= Epoch + MaxClock THEN now + ClockStep ELSE now
\* time.Now() on a goroutine of its own: no earlier than the last reading
Readings == {now, Clock}

\* values stay within TLC's integers: no call is made that takes the
\* timestamps further than this
MaxTS == 3 * uint32Overflow
InRange(s) ==
    /\ s.lastTS <= MaxTS
    /\ s.firstTS <= MaxTS /\ -s.firstTS <= MaxTS

Anchored == t.startedAt # 0

\* no track of the session is in Initialize
NoPeers == <<>>
\* Initialize has not been called on t
NoCall == [at |-> "start", now |-> 0, startedAt |-> 0]
\* the track's Initialize is under way
Anchoring == call.at \in {"read", "asked"}

Returned(r) ==
    [pts |-> r.pts, ok |-> r.ok, ts |-> r.ts, adj |-> r.adj, valid |-> r.valid,
     reset |-> r.reset, nextTS |-> r.nextTS]

Init ==
    /\ t = newTrackSynchronizer
    /\ sync = 0
    /\ now = Epoch
    /\ wire \in First
    /\ next = wire
    /\ op = "new"
    /\ arg = NoPkt
    /\ pkt = NoPkt
    /\ ret = NoRet
    /\ query = NoQuery
    /\ shown = <<>>
    /\ calls = [packets |-> 1, gaps |-> 0, inserts |-> 0, reports |-> 0]
    /\ track = [ClockRate |-> 16000, Kind |-> "audio"]
    /\ peers = NoPeers
    /\ call = NoCall

\* another track of the session receives its first packet and establishes
\* the session's start with its own reading of the clock
OtherTrackStarts ==
    /\ sync = 0
    /\ \E v \in Readings :
         /\ now' = v
         /\ sync' = getOrSetStartedAt(sync, v)
    /\ UNCHANGED <<t, wire, next, op, arg, pkt, ret, query, shown, calls, track, peers, call>>

\* Initialize(pkt), a step for each of its statements that another goroutine
\* can come between.  now := time.Now().UnixNano()
CallInitialize ==
    /\ call.at = "start"
    /\ next # NoPkt
    /\ \E v \in Readings :
         /\ now' = v
         /\ call' = [call EXCEPT !.at = "read", !.now = v]
    /\ UNCHANGED <<t, sync, wire, next, op, arg, pkt, ret, query, shown, calls, track, peers>>

\* startedAt := t.sync.getOrSetStartedAt(now), under the session's lock
InitializeGetOrSetStartedAt ==
    /\ call.at = "read"
    /\ sync' = getOrSetStartedAt(sync, call.now)
    /\ call' = [call EXCEPT !.at = "asked", !.startedAt = sync']
    /\ UNCHANGED <<t, now, wire, next, op, arg, pkt, ret, query, shown, calls, track, peers>>

\* t.Lock(); t.startedAt = now; t.firstTS = int64(pkt.Timestamp);
\* t.ptsOffset = now - startedAt; t.Unlock()
InitializeStore ==
    /\ call.at = "asked"
    /\ t' = Initialize(t, next, call.now, call.startedAt)
    /\ call' = [call EXCEPT !.at = "returned"]
    /\ op' = "Initialize"
    /\ arg' = next
    /\ pkt' = next
    /\ ret' = NoRet
    /\ query' = NoQuery
    /\ UNCHANGED <<sync, now, wire, next, shown, calls, track, peers>>

\* the transport delivers the next packet of the stream
Receive ==
    /\ Anchored
    /\ next = NoPkt
    /\ calls.packets < MaxPackets
    /\ \E d \in Steps :
         /\ wire' = [SequenceNumber |-> U16(wire.SequenceNumber + d[1]),
                     Timestamp      |-> U32(wire.Timestamp + d[2])]
         /\ calls' = [calls EXCEPT !.packets = @ + 1,
                                   !.gaps = IF d[1] = 1 THEN @ ELSE @ + 1]
    /\ next' = wire'
    /\ query' = NoQuery
    /\ UNCHANGED <<t, sync, now, op, arg, pkt, ret, shown, track, peers, call>>

CallGetPTS ==
    /\ Anchored
    /\ next # NoPkt
    /\ \E r \in {GetPTS(t, next)} :
         /\ InRange(r.t)
         /\ t' = r.t
         /\ pkt' = r.pkt
         /\ ret' = Returned(r)
         /\ shown' = IF r.ok THEN <<r.pts>> ELSE shown
    /\ op' = "GetPTS"
    /\ arg' = next
    /\ next' = NoPkt
    /\ query' = NoQuery
    /\ UNCHANGED <<sync, now, wire, calls, track, peers, call>>

\* a synthetic frame while no packet is at hand
CallInsertFrame ==
    /\ Anchored
    /\ next = NoPkt
    /\ calls.inserts < MaxInserts
    /\ \E r \in {InsertFrame(t, Blank)} :
         /\ t' = r.t
         /\ pkt' = r.pkt
         /\ ret' = Returned(r)
         /\ shown' = <<r.pts>>
    /\ op' = "InsertFrame"
    /\ arg' = Blank
    /\ calls' = [calls EXCEPT !.inserts = @ + 1]
    /\ query' = NoQuery
    /\ UNCHANGED <<sync, now, wire, next, track, peers, call>>

\* a synthetic frame ahead of the packet at hand, once the stream has begun
CallInsertFrameBefore ==
    /\ Anchored
    /\ op # "Initialize"
    /\ next # NoPkt
    /\ calls.inserts < MaxInserts
    /\ \E r \in {InsertFrameBefore(t, Blank, next)} :
         /\ InRange(r.t)
         /\ t' = r.t
         /\ pkt' = r.pkt
         /\ next' = r.next
         /\ ret' = Returned(r)
         /\ shown' = IF r.ok THEN <<r.pts>> ELSE shown
    /\ op' = "InsertFrameBefore"
    /\ arg' = Blank
    /\ calls' = [calls EXCEPT !.inserts = @ + 1]
    /\ query' = NoQuery
    /\ UNCHANGED <<sync, now, wire, track, peers, call>>

\* the caller asks for the frame duration after a packet
CallGetFrameDuration ==
    /\ Anchored
    /\ op = "GetPTS"
    /\ next = NoPkt
    /\ query' = [NoQuery EXCEPT !.op = "GetFrameDuration", !.pts = GetFrameDuration(t)]
    /\ UNCHANGED <<t, sync, now, wire, next, op, arg, pkt, ret, shown, calls, track, peers, call>>

\* a sender report arrives for the timestamp of the packet received last, on
\* the session's goroutine: also while Initialize is under way
CallGetSenderReportPTS ==
    /\ Anchored \/ Anchoring
    /\ calls.reports < MaxReports
    /\ now' = Clock
    /\ \E r \in {getSenderReportPTS(t, wire.Timestamp, now')} :
         query' = [op |-> "getSenderReportPTS", pts |-> r.pts, inDelta |-> r.inDelta]
    /\ UNCHANGED <<t, sync, wire, next, op, arg, pkt, ret, shown, calls, track, peers, call>>

\* and is applied with the PTS getSenderReportPTS gave for it
CallOnSenderReport ==
    /\ Anchored \/ Anchoring
    /\ query.op = "getSenderReportPTS"
    /\ calls.reports < MaxReports
    /\ \E drift \in Drifts :
         /\ t' = onSenderReport(t, query.pts + drift, query.pts)
         /\ query' = [query EXCEPT !.op = "onSenderReport", !.pts = @ + drift]
    /\ calls' = [calls EXCEPT !.reports = @ + 1]
    /\ UNCHANGED <<sync, now, wire, next, op, arg, pkt, ret, shown, track, peers, call>>

\* the session ends: the track is given the PTS after which it stops
SetMaxPTS ==
    /\ Anchored
    /\ next # NoPkt
    /\ t.maxPTS = 0
    /\ \E d \in EndAfter :
         /\ t.lastPTS + d > 0
         /\ t' = [t EXCEPT !.maxPTS = t.lastPTS + d]
    /\ query' = NoQuery
    /\ UNCHANGED <<sync, now, wire, next, op, arg, pkt, ret, shown, calls, track, peers, call>>

Next ==
    \/ OtherTrackStarts
    \/ CallInitialize
    \/ InitializeGetOrSetStartedAt
    \/ InitializeStore
    \/ Receive
    \/ CallGetPTS
    \/ CallInsertFrame
    \/ CallInsertFrameBefore
    \/ CallGetFrameDuration
    \/ CallGetSenderReportPTS
    \/ CallOnSenderReport
    \/ SetMaxPTS

Spec == Init /\ [][Next]_vars

-----------------------------------------------------------------------------
(* Tracks of other clock rates and kinds, in ticks and nanoseconds *)

\* the codecs: Opus, video, and the slowest and a very fast audio clock
Codecs == { [ClockRate |-> 48000,      Kind |-> "audio"],
            [ClockRate |-> 90000,      Kind |-> "video"],
            [ClockRate |-> 50,         Kind |-> "audio"],
            [ClockRate |-> 2100000000, Kind |-> "audio"] }
FirstOfRates == [SequenceNumber |-> 100, Timestamp |-> 1000]
\* the next packet: in order, after a loss or after a jump past maxSNDropout,
\* the same frame, one tick on, or one or two default frame durations on; or
\* at the edges of the dropout window (3000 and 3001 ahead, 3000 and 3001
\* behind), one tick on
StepsOfRates(s) ==
    ({1, 2, 4900} \X {0, 1, s.defaultFrameDuration, 2 * s.defaultFrameDuration})
    \cup ({maxSNDropout, maxSNDropout + 1,
           uint16Overflow - maxSNDropout, uint16Overflow - maxSNDropout - 1} \X {1})

\* the call does not take adjust into its wraparound loop
NoWrap(s, p) == IsReset(s, correctedSN(s, p)) \/ p.Timestamp >= s.lastTS
\* and has left every timestamp below the wraparound
BelowWrap ==
    /\ t.lastTS < uint32Overflow
    /\ ret.ts < uint32Overflow
    /\ ret.nextTS < uint32Overflow

InitRates ==
    /\ track \in Codecs
    /\ t = newTrackSynchronizerOf(track.ClockRate, track.Kind)
    /\ sync = 0
    /\ now = Epoch
    /\ wire = FirstOfRates
    /\ next = wire
    /\ op = "new"
    /\ arg = NoPkt
    /\ pkt = NoPkt
    /\ ret = NoRet
    /\ query = NoQuery
    /\ shown = <<>>
    /\ calls = [packets |-> 1, gaps |-> 0, inserts |-> 0, reports |-> 0]
    /\ peers = NoPeers
    /\ call = NoCall

ReceiveOfRates ==
    /\ Anchored
    /\ next = NoPkt
    /\ calls.packets < MaxPackets
    /\ \E d \in StepsOfRates(t) :
         /\ wire.Timestamp + d[2] < uint32Overflow
         /\ wire' = [SequenceNumber |-> U16(wire.SequenceNumber + d[1]),
                     Timestamp      |-> U32(wire.Timestamp + d[2])]
         /\ calls' = [calls EXCEPT !.packets = @ + 1,
                                   !.gaps = IF d[1] = 1 THEN @ ELSE @ + 1]
    /\ next' = wire'
    /\ query' = NoQuery
    /\ UNCHANGED <<t, sync, now, op, arg, pkt, ret, shown, track, peers, call>>

GetPTSOfRates ==
    /\ next # NoPkt
    /\ NoWrap(t, next)
    /\ CallGetPTS
    /\ BelowWrap'

InsertFrameOfRates ==
    /\ CallInsertFrame
    /\ BelowWrap'

InsertFrameBeforeOfRates ==
    /\ next # NoPkt
    /\ NoWrap([t EXCEPT !.snOffset = U16(@ + 1)], next)
    /\ CallInsertFrameBefore
    /\ BelowWrap'

NextRates ==
    \/ OtherTrackStarts
    \/ CallInitialize
    \/ InitializeGetOrSetStartedAt
    \/ InitializeStore
    \/ ReceiveOfRates
    \/ GetPTSOfRates
    \/ InsertFrameOfRates
    \/ InsertFrameBeforeOfRates
    \/ CallGetFrameDuration

SpecRates == InitRates /\ [][NextRates]_vars

-----------------------------------------------------------------------------
(* The tracks of one session in Initialize, each on its own goroutine *)

TracksInSession == 2
Tracks == 1 .. TracksInSession
\* the first packet of a track: its timestamp is any 32-bit value
FirstOfSession == { [SequenceNumber |-> 100, Timestamp |-> 1000],
                    [SequenceNumber |-> 7,   Timestamp |-> 0] }

\* a track before Initialize: where it is in the method ("start": not yet
\* called), the locals now and startedAt, the struct, the first packet and
\* the PTS GetPTS returned for it
Peer(p) == [ at |-> "start", now |-> 0, startedAt |-> 0,
             t |-> newTrackSynchronizer, first |-> p, pts |-> <<>> ]

InitSession ==
    /\ t = newTrackSynchronizer
    /\ sync = 0
    /\ now = Epoch
    /\ wire = NoPkt
    /\ next = NoPkt
    /\ op = "new"
    /\ arg = NoPkt
    /\ pkt = NoPkt
    /\ ret = NoRet
    /\ query = NoQuery
    /\ shown = <<>>
    /\ calls = [packets |-> 0, gaps |-> 0, inserts |-> 0, reports |-> 0]
    /\ track = [ClockRate |-> 16000, Kind |-> "audio"]
    /\ peers \in [Tracks -> {Peer(p) : p \in FirstOfSession}]
    /\ call = NoCall

\* the wall clock moves on
Tick ==
    /\ now < Epoch + MaxClock
    /\ now' = now + 1
    /\ UNCHANGED <<t, sync, wire, next, op, arg, pkt, ret, query, shown, calls, track, peers, call>>

\* now := time.Now().UnixNano()
ReadClock(i) ==
    /\ peers[i].at = "start"
    /\ peers' = [peers EXCEPT ![i].at = "read", ![i].now = now]
    /\ UNCHANGED <<t, sync, now, wire, next, op, arg, pkt, ret, query, shown, calls, track, call>>

\* startedAt := t.sync.getOrSetStartedAt(now), under the session's lock
AskSession(i) ==
    /\ peers[i].at = "read"
    /\ sync' = getOrSetStartedAt(sync, peers[i].now)
    /\ peers' = [peers EXCEPT ![i].at = "asked", ![i].startedAt = sync']
    /\ UNCHANGED <<t, now, wire, next, op, arg, pkt, ret, query, shown, calls, track, call>>

\* t.Lock(); t.startedAt = now; t.firstTS = ...; t.ptsOffset = now - startedAt; t.Unlock()
Anchor(i) ==
    /\ peers[i].at = "asked"
    /\ peers' = [peers EXCEPT
           ![i].at = "anchored",
           ![i].t  = Initialize(@, peers[i].first, peers[i].now, peers[i].startedAt)]
    /\ UNCHANGED <<t, sync, now, wire, next, op, arg, pkt, ret, query, shown, calls, track, call>>

\* the track's first packet is passed to GetPTS
FirstGetPTS(i) ==
    /\ peers[i].at = "anchored"
    /\ LET r == GetPTS(peers[i].t, peers[i].first) IN
         peers' = [peers EXCEPT ![i].at = "delivered",
                                ![i].t = r.t,
                                ![i].pts = IF r.ok THEN <<r.pts>> ELSE <<>>]
    /\ UNCHANGED <<t, sync, now, wire, next, op, arg, pkt, ret, query, shown, calls, track, call>>

NextSession ==
    \/ Tick
    \/ \E i \in Tracks : ReadClock(i)
    \/ \E i \in Tracks : AskSession(i)
    \/ \E i \in Tracks : Anchor(i)
    \/ \E i \in Tracks : FirstGetPTS(i)

SpecSession == InitSession /\ [][NextSession]_vars

AnchoredTracks == { i \in Tracks : peers[i].at \in {"anchored", "delivered"} }

-----------------------------------------------------------------------------
(* Which operation a step is *)

StepInitialize        == t.startedAt = 0 /\ t'.startedAt # 0
StepGetPTS            == next # NoPkt /\ next' = NoPkt
StepInsertFrame       == calls'.inserts # calls.inserts /\ op' = "InsertFrame"
StepInsertFrameBefore == calls'.inserts # calls.inserts /\ op' = "InsertFrameBefore"
StepOnSenderReport    == calls'.reports # calls.reports

\* the claims' own arithmetic, written out apart from the model's operators
GapPast(s, sn) ==
    /\ s.lastTS # 0
    /\ (sn - s.lastSN) % 65536 > 3000
    /\ (s.lastSN - sn) % 65536 > 3000
Offered(s, p) == (p.SequenceNumber + s.snOffset) % 65536
FrameDurationOf(s) ==
    IF s.frameDuration # 0 THEN s.frameDuration ELSE s.defaultFrameDuration
\* where the synthetic frame an insertion is about to make would end
SyntheticEnd(s) == s.lastTS + (s.inserted + 1) * FrameDurationOf(s) + FrameDurationOf(s)

-----------------------------------------------------------------------------
\* C1: on an initialized track, every PTS returned successfully (by GetPTS or
\* by an insertion) is at least the PTS returned by the previous successful
\* call, whatever gaps, wraparounds, insertions and sender reports come between.
C1_PTSNeverBackwards ==
    [][shown # <<>> /\ shown' # <<>> => shown'[1] >= shown[1]]_vars

\* C2: GetPTS on sequentially numbered packets, with no insertion and no
\* sender report, returns non-decreasing PTS values also where the 32-bit
\* timestamp wraps.
C2_WrapMonotone ==
    [][ ( /\ StepGetPTS
          /\ calls.gaps = 0 /\ calls.inserts = 0 /\ calls.reports = 0
          /\ ret'.ok
          /\ shown # <<>> )
        => ret'.pts >= shown[1] ]_vars

\* a packet whose wire timestamp has wrapped got its PTS, later than the last
C2_Wrapped ==
    /\ op = "GetPTS" /\ ret.ok
    /\ calls.gaps = 0 /\ calls.inserts = 0 /\ calls.reports = 0
    /\ calls.packets >= 2
    /\ pkt.Timestamp < 1000
    /\ ret.ts >= uint32Overflow
    /\ shown = <<ret.pts>>
    /\ ret.pts > t.ptsOffset

\* C3: the timestamp adjust returns is never below lastTS, on the ordinary,
\* the unwrapping and the reset path alike, so lastTS never decreases.
C3_AdjustedTSMonotone ==
    [][ /\ (StepGetPTS => ret'.ts >= t.lastTS)
        /\ (StepInsertFrameBefore => ret'.nextTS >= t.lastTS)
        /\ t'.lastTS >= t.lastTS ]_vars

\* a reset packet was projected forward from a timestamp already unwrapped
C3_RepairedAfterWrap ==
    /\ op = "GetPTS" /\ ret.ok /\ ret.reset
    /\ t.lastTS = ret.ts
    /\ ret.ts > uint32Overflow

\* C4: a packet whose offset-corrected sequence number is more than 3000 from
\* lastSN in both directions, a previous timestamp existing, is delivered as
\* lastSN+1 and marked invalid, and snOffset absorbs the whole gap: the packet
\* numbered one after it is delivered as lastSN+2.
C4_GapAbsorbed ==
    [][ /\ ( StepGetPTS /\ GapPast(t, Offered(t, next)) )
           => /\ pkt'.SequenceNumber = (t.lastSN + 1) % 65536
              /\ ~ret'.valid
              /\ (next.SequenceNumber + 1 + t'.snOffset) % 65536
                    = (t.lastSN + 2) % 65536
        /\ ( /\ StepGetPTS
             /\ op = "GetPTS" /\ ret.reset
             /\ next.SequenceNumber = (arg.SequenceNumber + 1) % 65536 )
           => pkt'.SequenceNumber = (pkt.SequenceNumber + 1) % 65536 ]_vars

\* lastSN = 100, raw 5000: delivered 101, invalid
C4_Example ==
    /\ op = "GetPTS" /\ ret.reset
    /\ arg.SequenceNumber = 5000
    /\ pkt.SequenceNumber = 101
    /\ ~ret.valid

\* C5 as claimed: GetPTS leaves the packet passed to it as it was.
C5_PacketUntouched ==
    [][StepGetPTS => pkt' = next]_vars

\* C5 as amended: GetPTS never changes the packet's timestamp; it rewrites the
\* sequence number to the raw number plus snOffset, or to lastSN+1 on a gap
\* reset, so that the packet is as it was when snOffset is 0 and there is no reset.
C5_OnlySequenceNumberRewritten ==
    [][ StepGetPTS
        => /\ pkt'.Timestamp = next.Timestamp
           /\ pkt'.SequenceNumber =
                 IF GapPast(t, Offered(t, next))
                 THEN (t.lastSN + 1) % 65536
                 ELSE Offered(t, next)
           /\ (t.snOffset = 0 /\ ~GapPast(t, Offered(t, next)) => pkt' = next) ]_vars

\* a packet came back from GetPTS renumbered by a non-zero snOffset
C5_Renumbered ==
    /\ op = "GetPTS" /\ ~ret.reset
    /\ t.snOffset # 0
    /\ pkt.SequenceNumber # arg.SequenceNumber
    /\ pkt.Timestamp = arg.Timestamp

\* C6: ptsOffset changes in Initialize and onSenderReport only.
C6_PtsOffsetFrame ==
    [][t'.ptsOffset # t.ptsOffset => StepInitialize \/ StepOnSenderReport]_vars

\* a gap reset after an insertion, on a track anchored after the session's
\* start, with no sender report yet: the offset is the one Initialize set
C6_OffsetKept ==
    /\ op = "GetPTS" /\ ret.reset
    /\ calls.inserts > 0 /\ calls.reports = 0
    /\ t.ptsOffset = now - sync
    /\ t.ptsOffset # 0

\* C7: GetPTS returns end-of-stream, with PTS 0, exactly when maxPTS is set
\* and the computed PTS is past it or the packet is invalid; otherwise it
\* returns the computed PTS.
C7_TwoOutcomes ==
    [][ StepGetPTS
        => /\ ~ret'.ok <=> (t.maxPTS > 0 /\ (ret'.adj > t.maxPTS \/ ~ret'.valid))
           /\ ~ret'.ok => ret'.pts = 0
           /\ ret'.ok => ret'.pts = ret'.adj /\ t'.lastPTS = ret'.adj ]_vars

\* end-of-stream for an invalid packet whose PTS is not past maxPTS
C7_EndedByInvalid ==
    /\ op = "GetPTS" /\ ~ret.ok
    /\ ~ret.valid
    /\ ret.adj <= t.maxPTS

\* C8: a GetPTS call that returns end-of-stream leaves lastTS, lastSN, lastPTS
\* and lastValid as they were.
C8_EndKeepsPrevious ==
    [][ StepGetPTS /\ ~ret'.ok
        => /\ t'.lastTS = t.lastTS
           /\ t'.lastSN = t.lastSN
           /\ t'.lastPTS = t.lastPTS
           /\ t'.lastValid = t.lastValid ]_vars

\* end-of-stream for a packet with a later timestamp and another number
C8_Ended ==
    /\ op = "GetPTS" /\ ~ret.ok
    /\ ret.ts > t.lastTS
    /\ pkt.SequenceNumber # t.lastSN
    /\ ret.adj > t.lastPTS

\* C9 as claimed: InsertFrameBefore is refused whenever the synthetic frame
\* would end at or after the adjusted timestamp of next.
C9_RefusedAtOrAfter ==
    [][ StepInsertFrameBefore /\ SyntheticEnd(t) >= ret'.nextTS => ~ret'.ok ]_vars

\* C9 as amended: InsertFrameBefore is refused exactly when the synthetic
\* frame would end after the adjusted timestamp of next; a frame ending at
\* that timestamp exactly is inserted.
C9_RefusedAfter ==
    [][ StepInsertFrameBefore
        => /\ ret'.ts = t.lastTS + (t.inserted + 1) * FrameDurationOf(t)
           /\ ~ret'.ok <=> SyntheticEnd(t) > ret'.nextTS ]_vars

\* a frame inserted that ends exactly where next begins
C9_InsertedFlush ==
    /\ op = "InsertFrameBefore" /\ ret.ok
    /\ ret.ts + FrameDurationOf(t) = ret.nextTS

\* C10: a refused InsertFrameBefore leaves the packet, the track's snOffset,
\* inserted, lastValid and firstTS, and the next packet as they were.
C10_RefusalChangesNothing ==
    [][ StepInsertFrameBefore /\ ~ret'.ok
        => /\ pkt' = arg'
           /\ t'.snOffset = t.snOffset
           /\ t'.inserted = t.inserted
           /\ t'.lastValid = t.lastValid
           /\ t'.firstTS = t.firstTS
           /\ next' = next ]_vars

\* C11: the PTS of a frame InsertFrameBefore(pkt, next) inserts is later than
\* lastPTS, and earlier than the PTS GetPTS then returns for next.
C11_InsertedBetween ==
    [][ /\ (StepInsertFrameBefore /\ ret'.ok => ret'.pts > t.lastPTS)
        /\ (StepGetPTS /\ op = "InsertFrameBefore" /\ ret.ok /\ ret'.ok
               => ret'.pts > ret.pts) ]_vars

\* C12: GetPTS sets frameDuration to ts - lastTS exactly when the packet is
\* valid, the previous packet was valid and the delivered sequence number is
\* lastSN+1, and leaves it as it was otherwise; GetFrameDuration returns 20 ms
\* once 960 ticks were learned at clock rate 48000, and the default before
\* anything is learned: clockRate/50 ticks for audio (20 ms), clockRate/24
\* ticks for other kinds (41 666 667 ns at clock rate 90000).
C12_CadenceLearned ==
    [][ /\ StepGetPTS
           => t'.frameDuration =
                 IF /\ ret'.valid
                    /\ t.lastValid
                    /\ pkt'.SequenceNumber = (t.lastSN + 1) % 65536
                 THEN ret'.ts - t.lastTS
                 ELSE t.frameDuration
        /\ query'.op = "GetFrameDuration"
           => /\ (track.ClockRate = 48000 /\ t.frameDuration = 960
                     => query'.pts = 20000000)
              /\ (t.frameDuration = 0 /\ track.Kind = "audio"
                     => /\ t.defaultFrameDuration = track.ClockRate \div 50
                        /\ query'.pts = 20000000)
              /\ (t.frameDuration = 0 /\ track.Kind # "audio"
                     => /\ t.defaultFrameDuration = track.ClockRate \div 24
                        /\ (track.ClockRate = 90000 => query'.pts = 41666667)) ]_vars

\* 960 ticks learned from the second of two packets in sequence at clock rate
\* 48000, after a first frame duration of 1920 ticks: 20 ms
C12_TwentyMs ==
    /\ track.ClockRate = 48000
    /\ op = "GetPTS" /\ ret.valid
    /\ calls.gaps = 0 /\ calls.inserts = 0
    /\ wire.Timestamp = 1000 + 1920 + 960
    /\ t.frameDuration = 960
    /\ query.op = "GetFrameDuration"
    /\ query.pts = 20000000

\* C13: however the Initialize calls of the tracks of a session interleave,
\* every track's ptsOffset is taken against the one session start the first
\* getOrSetStartedAt call established, so that the ptsOffsets of two tracks
\* differ by what their startedAt differ by; and the first packet of each track
\* gets that track's ptsOffset as its PTS.
C13_SessionAligned ==
    /\ \A i \in AnchoredTracks :
          /\ sync # 0
          /\ peers[i].t.ptsOffset = peers[i].t.startedAt - sync
    /\ \A i \in AnchoredTracks : \A j \in AnchoredTracks :
          peers[i].t.ptsOffset - peers[j].t.ptsOffset
             = peers[i].t.startedAt - peers[j].t.startedAt
    /\ \A i \in Tracks :
          peers[i].at = "delivered" => peers[i].pts = <<peers[i].t.ptsOffset>>

\* C20: however the Initialize calls of the tracks of a session interleave,
\* every track's ptsOffset is non-negative after Initialize, and no first
\* packet gets a negative PTS.
C20_NoTrackBeforeSession ==
    /\ \A i \in AnchoredTracks : peers[i].t.ptsOffset >= 0
    /\ \A i \in Tracks : peers[i].pts # <<>> => peers[i].pts[1] >= 0

\* C14: onSenderReport changes ptsOffset by exactly expected - pts, whatever
\* the size of the drift, and writes nothing else; getSenderReportPTS for the
\* same report then gives exactly expected, and applying the report again with
\* that PTS changes nothing.
C14_FullCorrection ==
    [][ StepOnSenderReport
        => /\ t'.ptsOffset = t.ptsOffset + (query'.pts - query.pts)
           /\ t' = [t EXCEPT !.ptsOffset = t'.ptsOffset]
           /\ t'.lastPTSDrift = 0
           /\ getSenderReportPTS(t', wire.Timestamp, now).pts = query'.pts
           /\ onSenderReport(t', query'.pts,
                             getSenderReportPTS(t', wire.Timestamp, now).pts) = t' ]_vars

\* a report ten seconds ahead was applied in full
C14_TenSecondsApplied ==
    /\ query.op = "onSenderReport"
    /\ calls.reports = 1
    /\ t.ptsOffset >= 5000
    /\ query.pts = getSenderReportPTS(t, wire.Timestamp, now).pts

\* C15: with no sender report, the packet in order after a gap-reset packet,
\* its timestamp d > 0 (modulo 2^32) after the reset packet's, gets the reset
\* packet's PTS plus d times the duration of a tick.
C15_ConsistentAfterReset ==
    [][ ( /\ StepGetPTS
          /\ op = "GetPTS" /\ ret.reset /\ ret.ok
          /\ calls.reports = 0
          /\ next.SequenceNumber = (arg.SequenceNumber + 1) % 65536
          /\ next.Timestamp # arg.Timestamp
          /\ ret'.ok )
        => ret'.pts = ret.pts + 2 * ((next.Timestamp - arg.Timestamp) % 67108864) ]_vars

\* C16: adjust resets exactly when lastTS is non-zero and the sequence number
\* (raw plus snOffset) is more than 3000 from lastSN in both directions; a
\* packet at most 3000 ahead of lastSN or at most 3000 behind it is not reset:
\* snOffset and firstTS stay, the packet is delivered as raw plus snOffset, and
\* it is valid unless it repeats the previous timestamp.
C16_ResetOutsideWindow ==
    [][ /\ StepGetPTS
           => /\ ret'.reset <=> GapPast(t, Offered(t, next))
              /\ ( \/ (Offered(t, next) - t.lastSN) % 65536 <= 3000
                   \/ (t.lastSN - Offered(t, next)) % 65536 <= 3000
                   \/ t.lastTS = 0 )
                 => /\ ~ret'.reset
                    /\ t'.snOffset = t.snOffset
                    /\ t'.firstTS = t.firstTS
                    /\ pkt'.SequenceNumber = Offered(t, next)
                    /\ (ret'.ts # t.lastTS => ret'.valid)
        /\ StepInsertFrameBefore
           => /\ ret'.reset <=> GapPast(t, (Offered(t, next) + 1) % 65536)
              /\ ~ret'.reset
                 => /\ t'.snOffset = (t.snOffset + 1) % 65536
                    /\ t'.firstTS = t.firstTS
                    /\ next'.SequenceNumber = (Offered(t, next) + 1) % 65536 ]_vars

\* a packet 3000 before the first, across the 16-bit wrap, and then one 3000
\* after that: neither reset
C16_AtTheEdges ==
    /\ op = "GetPTS" /\ ~ret.reset /\ ret.valid
    /\ calls.packets = 3 /\ calls.gaps = 2 /\ calls.inserts = 0
    /\ arg.SequenceNumber = 100
    /\ pkt.SequenceNumber = 100
    /\ t.lastSN = 100
    /\ t.snOffset = 0
    /\ t.lastTS = 1002

\* C17: with no sender report, once GetPTS has returned end-of-stream (for a
\* packet whose timestamp was not before the last delivered one), GetPTS on the
\* packet that follows in order with a later timestamp returns end-of-stream
\* too, also when the first end-of-stream was for an invalid packet.
C17_EndedStaysEnded ==
    [][ ( /\ StepGetPTS
          /\ op = "GetPTS" /\ ~ret.ok
          /\ calls.reports = 0
          /\ (arg.Timestamp - t.lastTS) % 67108864 \in 0 .. 10
          /\ next.SequenceNumber = (arg.SequenceNumber + 1) % 65536
          /\ (next.Timestamp - arg.Timestamp) % 67108864 \in 1 .. 10 )
        => ~ret'.ok ]_vars

\* C18: the first synthetic frame after a real packet delivered as n is
\* numbered n+1, each further one one more than the last, and the next real
\* packet, its raw number one after the last real packet's, is delivered by
\* GetPTS with the number after the last synthetic frame's, also when it was
\* passed to InsertFrameBefore as next.
C18_ContiguousNumbers ==
    [][ /\ ( /\ StepInsertFrame \/ StepInsertFrameBefore
             /\ ret'.ok
             /\ t.inserted = 0 )
           => pkt'.SequenceNumber = (t.lastSN + 1) % 65536
        /\ ( /\ StepInsertFrame \/ StepInsertFrameBefore
             /\ ret'.ok
             /\ op \in {"InsertFrame", "InsertFrameBefore"} /\ ret.ok )
           => pkt'.SequenceNumber = (pkt.SequenceNumber + 1) % 65536
        /\ ( /\ StepGetPTS
             /\ op \in {"InsertFrame", "InsertFrameBefore"} /\ ret.ok
             /\ calls.inserts = t.inserted
             /\ pkt.SequenceNumber = (t.lastSN + t.inserted) % 65536
             /\ calls.gaps = 0
             /\ t.maxPTS = 0 )
           => pkt'.SequenceNumber = (pkt.SequenceNumber + 1) % 65536 ]_vars

\* what C19 says of the timestamps: the learned frameDuration is never
\* negative, the frame duration in effect is positive, and the timestamp of
\* every synthetic frame and of every reset projection is after lastTS
PositiveCadence ==
    /\ t.frameDuration >= 0
    /\ FrameDurationOf(t) > 0
    /\ (StepInsertFrame \/ StepInsertFrameBefore => ret'.ts > t.lastTS)
    /\ (StepGetPTS /\ ret'.reset => ret'.ts > t.lastTS)
    /\ (StepInsertFrameBefore /\ ret'.reset => ret'.nextTS > t.lastTS)

\* C19 as claimed: on a track of clock rate 50 or more, frameDuration is never
\* negative and the frame duration in effect is positive, so that every
\* synthetic or reset-projected timestamp is after lastTS and GetFrameDuration
\* always returns a positive duration.
C19_PositiveDuration ==
    [][ track.ClockRate >= 50
        => /\ PositiveCadence
           /\ (query'.op = "GetFrameDuration" => query'.pts > 0) ]_vars

\* C19 as amended: the same of the timestamps; GetFrameDuration returns a
\* positive duration on a track of clock rate 50 to 2 000 000 000, and at any
\* clock rate from 50 a duration that is not negative.
C19_PositiveUpToTwoGHz ==
    [][ track.ClockRate >= 50
        => /\ PositiveCadence
           /\ (query'.op = "GetFrameDuration"
                  => /\ query'.pts >= 0
                     /\ (track.ClockRate <= 2000000000 => query'.pts > 0)) ]_vars

\* a frame duration of one tick learned at clock rate 48000: 20 833 ns
C19_OneTickLearned ==
    /\ track.ClockRate = 48000
    /\ t.frameDuration = 1
    /\ query.op = "GetFrameDuration"
    /\ query.pts = 20833

=============================================================================
